---- MODULE Spec2Model ----
(***************************************************************************)
(* Model of package sync/pool of github.com/NicholeGit/sugar: the          *)
(* ErrorPool of error_pool.go with the Pool, ContextPool, ResultPool and   *)
(* errors.Append it is built on.  error_pool.go is translated from its     *)
(* source; the plain Pool, the ContextPool, the ResultPool and Append are  *)
(* not part of the source tree and follow spec.md sections 3 and 4.        *)
(*                                                                         *)
(* One pool instance is modelled.  Its callers submit up to MaxTasks tasks *)
(* with Go, may call the configuration methods at any moment, and call     *)
(* Wait once every Go call has returned.  Every task is a goroutine that   *)
(* moves through                                                           *)
(*   idle -> acquiring -> running -> returned | panicked                   *)
(*        -> locked -> exiting -> releasing -> done                        *)
(***************************************************************************)
EXTENDS Integers, Sequences, FiniteSets, TLC

\* ------------------------------------------------------------------ bounds
MaxTasks == 2
MaxCap == 2
MaxId == 2

Tasks == 1..MaxTasks
ErrIds == 1..MaxId
Vals == 1..MaxId

\* ------------------------------------------------------------ error values
\* A Go error value: the nil interface, a leaf error, or the aggregate that
\* errors.Append builds.  The outcome of a task body is one of these, a
\* recovered panic, or (ResultPool) a value.
NoErr == [tag |-> "nil", leaves |-> << >>]
Leaf(e) == [tag |-> "leaf", leaves |-> <<e>>]
Multi(s) == [tag |-> "multi", leaves |-> s]
NotYet == [tag |-> "none", leaves |-> << >>]
Panic == [tag |-> "panic", leaves |-> << >>]
Value(v) == [tag |-> "value", leaves |-> <<v>>]

\* leaves(a) of spec.md 4.3: a leaf counts as the one-element sequence.
Leaves(a) == a.leaves

\* Mutant of errors.Append: a nil first argument gives the second itself.
Append_other(a, b) ==
    IF a = NoErr THEN b
    ELSE IF b = NoErr THEN a
    ELSE Multi(Leaves(a) \o Leaves(b))

\* errors.Append(a, b), the ErrorAggregator.combine of spec.md 4.3: nothing
\* is added by a nil b; otherwise the result is an aggregate of the leaves of
\* a followed by those of b, also when a is nil and b is one error (the
\* error that ExampleErrorPool prints is the task's error in brackets).
Append_(a, b) ==
    IF b = NoErr THEN a
    ELSE Multi(Leaves(a) \o Leaves(b))

\* The token that stands for a bracket in a rendered error.
Bracket == 0

\* err.Error(): an *Error renders as its own text (the token e); an aggregate
\* renders its leaves inside brackets.
Error_(a) ==
    IF a.tag = "multi" THEN <<Bracket>> \o a.leaves \o <<Bracket>>
    ELSE a.leaves

\* ---------------------------------------------------------------- state
VARIABLES
    variant,        \* "error" | "context" | "result": the pool type built
    state,          \* lifecycle: Configuring, Running, Draining, Done
    limiterCap,     \* Limiter capacity, 0 = unbounded
    reqCap,         \* history: the n of the last successful WithMaxGoroutines(n)
    admitted,       \* Limiter: slots held
    outstanding,    \* Pool: outstanding-task counter
    fault,          \* Pool: captured panic (0 = none, else the task it came from)
    onlyFirstError, \* ErrorPool.onlyFirstError
    mu,             \* ErrorPool.mu / ResultPool.mu: 0 = free, else the holder
    errs,           \* ErrorPool.errs
    results,        \* ResultPool.results
    pc,             \* pc[t]: position of task t
    ret,            \* ret[t]: what the body of task t returned
    waitPc,         \* Wait(): "none", "blocked", "returned", "raised"
    waitRet,        \* the error Wait() returned
    waitRes,        \* the results ResultPool.Wait() returned
    ctxDone,        \* ContextPool: the derived context is cancelled
    callerPanic,    \* "none", or the panic an API call ended in
    firstLock,      \* history: the first task whose addErr took mu (0 = none)
    firstErrorAtGo, \* history: onlyFirstError as it was at the first Go call
    goChild,        \* goChild[t]: the task that task t is submitting from its
                    \* body with Go (0 = none)
    derived,        \* the ContextPool that WithContext returned, while kept
    cancelCalls,    \* ContextPool: invocations of the cancel function
    wait2,          \* how a second call of Wait() ended
    call            \* a call of a function of package errors: arguments, result

vars == <<variant, state, limiterCap, reqCap, admitted, outstanding, fault,
          onlyFirstError, mu, errs, results, pc, ret, waitPc, waitRet,
          waitRes, ctxDone, callerPanic, firstLock, firstErrorAtGo, goChild,
          derived, cancelCalls, wait2, call>>

poolVars == <<limiterCap, reqCap, admitted, outstanding, fault>>
errVars == <<onlyFirstError, mu, errs, firstLock, firstErrorAtGo>>
taskVars == <<pc, ret>>
waitVars == <<waitPc, waitRet, waitRes>>
auxVars == <<goChild, derived, cancelCalls, wait2>>

\* A panic that leaves an API call is not recovered: it ends the program, and
\* no goroutine takes another step.
Alive == callerPanic = "none"

\* No function of package errors called yet.
NoCall == [fn |-> "none"]

\* No ContextPool derived yet.
NoPool == [made |-> FALSE]

\* Wait() not called a second time.
NoWait == [pc |-> "none", ret |-> NoErr, res |-> << >>]

\* New().WithErrors(), New().WithErrors().WithContext(ctx): a pool in its
\* Configuring state with the zero value of every field.
InitPool ==
    /\ state = "Configuring"
    /\ limiterCap = 0
    /\ reqCap = 0
    /\ admitted = 0
    /\ outstanding = 0
    /\ fault = 0
    /\ onlyFirstError = FALSE
    /\ mu = 0
    /\ errs = NoErr
    /\ results = << >>
    /\ pc = [t \in Tasks |-> "idle"]
    /\ ret = [t \in Tasks |-> NotYet]
    /\ waitPc = "none"
    /\ waitRet = NoErr
    /\ waitRes = << >>
    /\ ctxDone = FALSE
    /\ callerPanic = "none"
    /\ firstLock = 0
    /\ firstErrorAtGo = FALSE
    /\ goChild = [t \in Tasks |-> 0]
    /\ derived = NoPool
    /\ cancelCalls = 0
    /\ wait2 = NoWait
    /\ call = NoCall

Init ==
    /\ variant \in {"error", "context"}
    /\ InitPool

\* New().WithErrors() with its configuration calls made: WithMaxGoroutines(n)
\* or none, WithFirstError() or none, WithContext(ctx) or none.
InitConfigured ==
    /\ variant \in {"error", "context"}
    /\ state = "Configuring"
    /\ limiterCap \in 0..MaxCap
    /\ reqCap = limiterCap
    /\ admitted = 0
    /\ outstanding = 0
    /\ fault = 0
    /\ onlyFirstError \in BOOLEAN
    /\ mu = 0
    /\ errs = NoErr
    /\ results = << >>
    /\ pc = [t \in Tasks |-> "idle"]
    /\ ret = [t \in Tasks |-> NotYet]
    /\ waitPc = "none"
    /\ waitRet = NoErr
    /\ waitRes = << >>
    /\ ctxDone = FALSE
    /\ callerPanic = "none"
    /\ firstLock = 0
    /\ firstErrorAtGo = FALSE
    /\ goChild = [t \in Tasks |-> 0]
    /\ derived = NoPool
    /\ cancelCalls = 0
    /\ wait2 = NoWait
    /\ call = NoCall

\* NewWithResults[T]()
InitResult ==
    /\ variant = "result"
    /\ InitPool

\* ------------------------------------------------------------ Limiter, Pool
\* Limiter.setCapacity / Pool.WithMaxGoroutines(n): only while Configuring
\* and only for n >= 1; otherwise a ConfigError and nothing changes.
Pool_WithMaxGoroutines(n) ==
    IF state = "Configuring" /\ n >= 1
    THEN /\ limiterCap' = n
         /\ callerPanic' = "none"
    ELSE /\ limiterCap' = limiterCap
         /\ callerPanic' = "ConfigError"

\* Pool.deref, the copy of the plain pool behind every transition to a
\* richer pool: a transition is valid only while Configuring.
Pool_derefPanics == state # "Configuring"

\* Pool.Go up to the limiter: illegal once the pool is Draining or Done
\* (fails fast, the task is not started); otherwise the pool is Running and
\* the call goes on to acquire a slot.
Pool_Go(t) ==
    IF state \in {"Draining", "Done"}
    THEN /\ callerPanic' = "StateError"
         /\ UNCHANGED <<state, pc>>
    ELSE /\ state' = "Running"
         /\ pc' = [pc EXCEPT ![t] = "acquiring"]
         /\ callerPanic' = "none"

\* Limiter.acquire inside Pool.Go: blocks until a slot is free (no bound when
\* the capacity is 0), then counts the task as outstanding and starts it.
Pool_acquire(t) ==
    /\ Alive
    /\ pc[t] = "acquiring"
    /\ limiterCap = 0 \/ admitted < limiterCap
    /\ admitted' = admitted + 1
    /\ outstanding' = outstanding + 1
    /\ pc' = [pc EXCEPT ![t] = "running"]
    /\ UNCHANGED <<variant, call, auxVars, state, limiterCap, reqCap, fault, errVars, results,
                   ret, waitVars, ctxDone, callerPanic>>

\* Mutant of the worker's end: the last panic is kept.
Pool_taskDone_lastWins(t) ==
    /\ Alive
    /\ pc[t] \in {"exiting", "panicked"}
    /\ fault' = IF pc[t] = "panicked" THEN t ELSE fault
    /\ outstanding' = outstanding - 1
    /\ pc' = [pc EXCEPT ![t] = "releasing"]
    /\ UNCHANGED <<variant, call, auxVars, state, limiterCap, reqCap, admitted, errVars,
                   results, ret, waitVars, ctxDone, callerPanic>>

\* The end of a task's worker: a panic of the task is recovered and kept if
\* it is the first, and the outstanding counter is decremented.
Pool_taskDone(t) ==
    /\ Alive
    /\ pc[t] \in {"exiting", "panicked"}
    /\ fault' = IF pc[t] = "panicked" /\ fault = 0 THEN t ELSE fault
    /\ outstanding' = outstanding - 1
    /\ pc' = [pc EXCEPT ![t] = "releasing"]
    /\ UNCHANGED <<variant, call, auxVars, state, limiterCap, reqCap, admitted, errVars,
                   results, ret, waitVars, ctxDone, callerPanic>>

\* Mutant of Limiter.release: the slot of a task that panicked is kept.
Pool_release_leak(t) ==
    /\ Alive
    /\ pc[t] = "releasing"
    /\ admitted' = IF ret[t] = Panic THEN admitted ELSE admitted - 1
    /\ pc' = [pc EXCEPT ![t] = "done"]
    /\ UNCHANGED <<variant, call, auxVars, state, limiterCap, reqCap, outstanding, fault,
                   errVars, results, ret, waitVars, ctxDone, callerPanic>>

\* Limiter.release: the slot is returned, panic or not.
Pool_release(t) ==
    /\ Alive
    /\ pc[t] = "releasing"
    /\ admitted' = admitted - 1
    /\ pc' = [pc EXCEPT ![t] = "done"]
    /\ UNCHANGED <<variant, call, auxVars, state, limiterCap, reqCap, outstanding, fault,
                   errVars, results, ret, waitVars, ctxDone, callerPanic>>

\* Pool.Wait, the call: the pool is Draining and the caller blocks.
Pool_WaitCall ==
    /\ state' = "Draining"
    /\ waitPc' = "blocked"

\* Pool.Wait has drained: the outstanding counter is zero.
Pool_drained == outstanding = 0

\* Tasks are named in the order of their Go calls.
NextToSubmit(t) ==
    /\ pc[t] = "idle"
    /\ IF t = 1 THEN TRUE ELSE pc[t - 1] # "idle"

\* Wait is called once every Go call has returned (sync.WaitGroup's rule).
NoGoInFlight == \A t \in Tasks : pc[t] # "acquiring"

\* What a task body can do: return nil, return an error, or panic.
ErrOutcomes == {NoErr, Panic} \cup {Leaf(e) : e \in ErrIds}
ValOutcomes == {Panic} \cup {Value(v) : v \in Vals}
IsErr(o) == o.tag \in {"leaf", "multi"}

\* ---------------------------------------------------------------- ErrorPool
\* Mutant of ErrorPool.Go: the task is started without the plain pool's Go.
ErrorPool_Go_direct(t) ==
    /\ Alive
    /\ NextToSubmit(t)
    /\ pc' = [pc EXCEPT ![t] = "acquiring"]
    /\ firstErrorAtGo' = IF state = "Configuring" THEN onlyFirstError
                         ELSE firstErrorAtGo
    /\ UNCHANGED <<variant, call, auxVars, state, poolVars, onlyFirstError, mu, errs,
                   firstLock, results, ret, waitVars, ctxDone, callerPanic>>

\* ErrorPool.Go: p.pool.Go(func() { p.addErr(f()) })
ErrorPool_Go(t) ==
    /\ Alive
    /\ NextToSubmit(t)
    /\ Pool_Go(t)
    /\ firstErrorAtGo' = IF state = "Configuring" THEN onlyFirstError
                         ELSE firstErrorAtGo
    /\ UNCHANGED <<variant, call, auxVars, poolVars, onlyFirstError, mu, errs, firstLock,
                   results, ret, waitVars, ctxDone>>

\* Mutant of the closure of ErrorPool.Go: the pool counts the task out when
\* f() returns, before addErr.
ErrorPool_task_detached(t) ==
    /\ Alive
    /\ variant = "error"
    /\ pc[t] = "running"
    /\ goChild[t] = 0
    /\ \E o \in ErrOutcomes :
          /\ ret' = [ret EXCEPT ![t] = o]
          /\ pc' = [pc EXCEPT ![t] = IF o = Panic THEN "panicked" ELSE "returned"]
          /\ outstanding' = IF o = Panic THEN outstanding ELSE outstanding - 1
    /\ UNCHANGED <<variant, call, auxVars, state, limiterCap, reqCap, admitted,
                   fault, errVars, results, waitVars, ctxDone, callerPanic>>

\* The task's f() inside the closure of ErrorPool.Go runs to its end.
ErrorPool_task(t) ==
    /\ Alive
    /\ variant = "error"
    /\ pc[t] = "running"
    /\ goChild[t] = 0
    /\ \E o \in ErrOutcomes :
          /\ ret' = [ret EXCEPT ![t] = o]
          /\ pc' = [pc EXCEPT ![t] = IF o = Panic THEN "panicked" ELSE "returned"]
    /\ UNCHANGED <<variant, call, auxVars, state, poolVars, errVars, results, waitVars,
                   ctxDone, callerPanic>>

\* The task's f() calls p.Go(g) on its own pool: the body of task t is inside
\* Go until task c is admitted.  (On a pool that is Draining the call ends the
\* body by a panic, which ErrorPool_task covers.)
ErrorPool_taskGo(t, c) ==
    /\ Alive
    /\ pc[t] = "running"
    /\ goChild[t] = 0
    /\ state = "Running"
    /\ NextToSubmit(c)
    /\ Pool_Go(c)
    /\ goChild' = [goChild EXCEPT ![t] = c]
    /\ UNCHANGED <<variant, call, poolVars, errVars, results, ret, waitVars,
                   ctxDone, derived, cancelCalls, wait2>>

\* The Go call of task t's body returns: its task has a slot.
ErrorPool_taskGoReturn(t) ==
    /\ Alive
    /\ goChild[t] # 0
    /\ pc[goChild[t]] # "acquiring"
    /\ goChild' = [goChild EXCEPT ![t] = 0]
    /\ UNCHANGED <<variant, call, state, poolVars, errVars, results, taskVars,
                   waitVars, ctxDone, callerPanic, derived, cancelCalls, wait2>>

\* Mutants of addErr: the nil test of the first-error branch inverted; the
\* first-error branch storing every error; the aggregate branch dropping
\* what was collected.
addErr_keepNil(cur, err, only) ==
    IF only
    THEN IF cur # NoErr THEN err ELSE cur
    ELSE Append_(cur, err)

addErr_lastWins(cur, err, only) ==
    IF only THEN err ELSE Append_(cur, err)

addErr_overwrite(cur, err, only) ==
    IF only
    THEN IF cur = NoErr THEN err ELSE cur
    ELSE Append_(NoErr, err)

\* Mutant of addErr: the new error goes in front of what was collected.
addErr_prepend(cur, err, only) ==
    IF only
    THEN IF cur = NoErr THEN err ELSE cur
    ELSE Append_(err, cur)

\* ErrorPool.addErr, the value it leaves in p.errs while it holds p.mu.
addErr(cur, err, only) ==
    IF only
    THEN IF cur = NoErr THEN err ELSE cur
    ELSE Append_(cur, err)

\* addErr(nil): nothing to record.
ErrorPool_addErrNil(t) ==
    /\ Alive
    /\ pc[t] = "returned"
    /\ ret[t] = NoErr
    /\ pc' = [pc EXCEPT ![t] = "exiting"]
    /\ UNCHANGED <<variant, call, auxVars, state, poolVars, errVars, results, ret, waitVars,
                   ctxDone, callerPanic>>

\* addErr(err), err != nil: p.mu.Lock()
ErrorPool_addErrLock(t) ==
    /\ Alive
    /\ pc[t] = "returned"
    /\ ret[t] # NoErr
    /\ mu = 0
    /\ mu' = t
    /\ firstLock' = IF firstLock = 0 THEN t ELSE firstLock
    /\ pc' = [pc EXCEPT ![t] = "locked"]
    /\ UNCHANGED <<variant, call, auxVars, state, poolVars, onlyFirstError, errs, firstErrorAtGo, results,
                   ret, waitVars, ctxDone, callerPanic>>

\* Mutant of addErr: the store without p.mu.Unlock()
ErrorPool_addErrStore_noUnlock(t) ==
    /\ Alive
    /\ pc[t] = "locked"
    /\ mu = t
    /\ errs' = addErr(errs, ret[t], onlyFirstError)
    /\ mu' = mu
    /\ pc' = [pc EXCEPT ![t] = "exiting"]
    /\ UNCHANGED <<variant, call, auxVars, state, poolVars, onlyFirstError, firstLock, firstErrorAtGo,
                   results, ret, waitVars, ctxDone, callerPanic>>

\* addErr(err): the store to p.errs and p.mu.Unlock()
ErrorPool_addErrStore(t) ==
    /\ Alive
    /\ pc[t] = "locked"
    /\ mu = t
    /\ errs' = addErr(errs, ret[t], onlyFirstError)
    /\ mu' = 0
    /\ pc' = [pc EXCEPT ![t] = "exiting"]
    /\ UNCHANGED <<variant, call, auxVars, state, poolVars, onlyFirstError, firstLock, firstErrorAtGo,
                   results, ret, waitVars, ctxDone, callerPanic>>

\* ErrorPool.Wait, the call into p.pool.Wait()
ErrorPool_WaitCall ==
    /\ Alive
    /\ waitPc = "none"
    /\ NoGoInFlight
    /\ Pool_WaitCall
    /\ callerPanic' = "none"
    /\ UNCHANGED <<variant, call, auxVars, poolVars, errVars, results, taskVars, waitRet,
                   waitRes, ctxDone>>

\* Mutants of ErrorPool.Wait: the panic of p.pool.Wait() is swallowed; p.errs
\* is returned without the drain; a recorded error is returned in place of
\* the panic.
ErrorPool_Wait_swallow ==
    /\ waitPc = "blocked"
    /\ Pool_drained
    /\ state' = "Done"
    /\ waitPc' = "returned"
    /\ waitRet' = errs

ErrorPool_Wait_noDrain ==
    /\ waitPc = "blocked"
    /\ state' = "Done"
    /\ IF fault # 0
       THEN /\ waitPc' = "raised"
            /\ waitRet' = waitRet
       ELSE /\ waitPc' = "returned"
            /\ waitRet' = errs

ErrorPool_Wait_errFirst ==
    /\ waitPc = "blocked"
    /\ Pool_drained
    /\ state' = "Done"
    /\ IF fault # 0 /\ errs = NoErr
       THEN /\ waitPc' = "raised"
            /\ waitRet' = waitRet
       ELSE /\ waitPc' = "returned"
            /\ waitRet' = errs

\* ErrorPool.Wait: p.pool.Wait() ends, by a panic when a task's panic was
\* captured; if it returns, Wait returns p.errs.
ErrorPool_Wait ==
    /\ waitPc = "blocked"
    /\ Pool_drained
    /\ state' = "Done"
    /\ IF fault # 0
       THEN /\ waitPc' = "raised"
            /\ waitRet' = waitRet
       ELSE /\ waitPc' = "returned"
            /\ waitRet' = errs

ErrorPool_WaitReturn ==
    /\ Alive
    /\ variant = "error"
    /\ ErrorPool_Wait
    /\ UNCHANGED <<variant, call, auxVars, poolVars, errVars, results, taskVars, waitRes,
                   ctxDone, callerPanic>>

\* Pool.Wait on a pool that is Done returns at once.
Pool_WaitDone == state = "Done"

\* Mutant of the second ErrorPool.Wait: the first call took the errors away.
ErrorPool_Wait2_nil ==
    /\ Pool_WaitDone
    /\ wait2.pc = "none"
    /\ wait2' = [pc  |-> IF fault # 0 THEN "raised" ELSE "returned",
                 ret |-> NoErr,
                 res |-> << >>]

\* ErrorPool.Wait called a second time: p.pool.Wait() has nothing to wait for
\* and raises the captured panic again; if it returns, Wait returns p.errs.
ErrorPool_Wait2 ==
    /\ Pool_WaitDone
    /\ wait2.pc = "none"
    /\ wait2' = [pc  |-> IF fault # 0 THEN "raised" ELSE "returned",
                 ret |-> IF fault # 0 THEN NoErr ELSE errs,
                 res |-> << >>]

ErrorPool_WaitAgain ==
    /\ Alive
    /\ variant = "error"
    /\ ErrorPool_Wait2
    /\ UNCHANGED <<variant, call, goChild, derived, cancelCalls, state, poolVars,
                   errVars, results, taskVars, waitVars, ctxDone, callerPanic>>

\* ErrorPool.WithFirstError
ErrorPool_WithFirstError ==
    /\ Alive
    /\ variant = "error"
    /\ onlyFirstError' = TRUE
    /\ callerPanic' = "none"
    /\ UNCHANGED <<variant, call, auxVars, state, poolVars, mu, errs, firstLock, firstErrorAtGo, results,
                   taskVars, waitVars, ctxDone>>

\* Mutant of ErrorPool.WithMaxGoroutines: a bound below 1 is taken as 1.
ErrorPool_WithMaxGoroutines_clamp(n) ==
    /\ Alive
    /\ variant = "error"
    /\ Pool_WithMaxGoroutines(IF n < 1 THEN 1 ELSE n)
    /\ reqCap' = IF callerPanic' = "none" THEN n ELSE reqCap
    /\ UNCHANGED <<variant, call, auxVars, state, admitted, outstanding, fault, errVars,
                   results, taskVars, waitVars, ctxDone>>

\* Mutant of ErrorPool.WithMaxGoroutines: one slot too many.
ErrorPool_WithMaxGoroutines_offByOne(n) ==
    /\ Alive
    /\ variant = "error"
    /\ Pool_WithMaxGoroutines(n + 1)
    /\ reqCap' = IF callerPanic' = "none" THEN n ELSE reqCap
    /\ UNCHANGED <<variant, call, auxVars, state, admitted, outstanding, fault, errVars,
                   results, taskVars, waitVars, ctxDone>>

\* ErrorPool.WithMaxGoroutines(n): p.pool.WithMaxGoroutines(n)
ErrorPool_WithMaxGoroutines(n) ==
    /\ Alive
    /\ variant = "error"
    /\ Pool_WithMaxGoroutines(n)
    /\ reqCap' = IF callerPanic' = "none" THEN n ELSE reqCap
    /\ UNCHANGED <<variant, call, auxVars, state, admitted, outstanding, fault, errVars,
                   results, taskVars, waitVars, ctxDone>>

\* Pool.deref: a plain pool with the capacity of p.pool and a limiter, an
\* outstanding counter and a fault slot of its own.
Pool_deref ==
    [limiterCap |-> limiterCap, state |-> "Configuring", admitted |-> 0,
     outstanding |-> 0, fault |-> FALSE]

\* Mutant of ErrorPool.deref: the recorded errors are copied too.
deref_keepErrs ==
    [pool |-> Pool_deref, onlyFirstError |-> onlyFirstError, mu |-> 0,
     errs |-> errs]

\* Mutant of ErrorPool.deref: the error mode is not copied.
deref_dropMode ==
    [pool |-> Pool_deref, onlyFirstError |-> FALSE, mu |-> 0, errs |-> NoErr]

\* ErrorPool.deref: ErrorPool{pool: p.pool.deref(), onlyFirstError:
\* p.onlyFirstError}; mu and errs are the zero values.
deref ==
    [pool |-> Pool_deref, onlyFirstError |-> onlyFirstError, mu |-> 0,
     errs |-> NoErr]

\* The ContextPool of WithContext: {errorPool: p.deref(), ctx, cancel}, with
\* the state of the one task followed on it.
WithContext ==
    [made |-> TRUE, errorPool |-> deref, ctxDone |-> FALSE, pc |-> "idle",
     ret |-> NotYet, waitPc |-> "none", waitRet |-> NoErr]

\* ErrorPool.WithContext: a new ContextPool around p.deref(), which copies
\* p.pool.deref() and onlyFirstError.  Nothing of p is written; the call ends
\* in the plain pool's ConfigError once tasks were submitted.
\* keep: the caller keeps the ContextPool it gets (the first one is followed).
ErrorPool_WithContext(keep) ==
    /\ Alive
    /\ variant = "error"
    /\ callerPanic' = IF Pool_derefPanics THEN "ConfigError" ELSE "none"
    /\ derived' = IF keep /\ ~derived.made /\ ~Pool_derefPanics
                  THEN WithContext
                  ELSE derived
    /\ UNCHANGED <<variant, call, goChild, cancelCalls, wait2, state, poolVars, errVars,
                   results, taskVars, waitVars, ctxDone>>

\* -------------------------------------------------------------- ContextPool
\* ContextPool.Go submits through its ErrorPool (ErrorPool_Go); the task gets
\* the context, and an error it returns cancels the context at once, before
\* the error goes to addErr.  cancelCalls counts the invocations of the cancel
\* function.  Mutants: a failing task does not cancel; a failing task cancels
\* only a context that is not Done yet.
ContextPool_task_noCancel(t) ==
    /\ Alive
    /\ variant = "context"
    /\ pc[t] = "running"
    /\ goChild[t] = 0
    /\ \E o \in ErrOutcomes :
          /\ ret' = [ret EXCEPT ![t] = o]
          /\ pc' = [pc EXCEPT ![t] = IF o = Panic THEN "panicked" ELSE "returned"]
          /\ ctxDone' = ctxDone
          /\ cancelCalls' = cancelCalls
    /\ UNCHANGED <<variant, call, goChild, derived, wait2, state, poolVars, errVars,
                   results, waitVars, callerPanic>>

ContextPool_task_cancelOnce(t) ==
    /\ Alive
    /\ variant = "context"
    /\ pc[t] = "running"
    /\ goChild[t] = 0
    /\ \E o \in ErrOutcomes :
          /\ ret' = [ret EXCEPT ![t] = o]
          /\ pc' = [pc EXCEPT ![t] = IF o = Panic THEN "panicked" ELSE "returned"]
          /\ ctxDone' = (ctxDone \/ IsErr(o))
          /\ cancelCalls' = IF IsErr(o) /\ ~ctxDone THEN cancelCalls + 1
                                                    ELSE cancelCalls
    /\ UNCHANGED <<variant, call, goChild, derived, wait2, state, poolVars, errVars,
                   results, waitVars, callerPanic>>

ContextPool_task(t) ==
    /\ Alive
    /\ variant = "context"
    /\ pc[t] = "running"
    /\ goChild[t] = 0
    /\ \E o \in ErrOutcomes :
          /\ ret' = [ret EXCEPT ![t] = o]
          /\ pc' = [pc EXCEPT ![t] = IF o = Panic THEN "panicked" ELSE "returned"]
          /\ ctxDone' = (ctxDone \/ IsErr(o))
          /\ cancelCalls' = IF IsErr(o) THEN cancelCalls + 1 ELSE cancelCalls
    /\ UNCHANGED <<variant, call, goChild, derived, wait2, state, poolVars, errVars,
                   results, waitVars, callerPanic>>

\* ContextPool.Wait: as ErrorPool.Wait, and the cancel function is invoked
\* before the call ends.
\* Mutant: Wait leaves the context as the tasks left it.
ContextPool_WaitReturn_noCancel ==
    /\ Alive
    /\ variant = "context"
    /\ ErrorPool_Wait
    /\ ctxDone' = ctxDone
    /\ cancelCalls' = cancelCalls
    /\ UNCHANGED <<variant, call, goChild, derived, wait2, poolVars, errVars, results,
                   taskVars, waitRes, callerPanic>>

ContextPool_WaitReturn ==
    /\ Alive
    /\ variant = "context"
    /\ ErrorPool_Wait
    /\ ctxDone' = TRUE
    /\ cancelCalls' = cancelCalls + 1
    /\ UNCHANGED <<variant, call, goChild, derived, wait2, poolVars, errVars, results,
                   taskVars, waitRes, callerPanic>>

\* ContextPool.Wait called again: as ErrorPool.Wait, then the cancel function.
ContextPool_WaitAgain ==
    /\ Alive
    /\ variant = "context"
    /\ ErrorPool_Wait2
    /\ ctxDone' = TRUE
    /\ cancelCalls' = cancelCalls + 1
    /\ UNCHANGED <<variant, call, goChild, derived, state, poolVars, errVars, results,
                   taskVars, waitVars, callerPanic>>

\* ContextPool.WithFirstError: only while Configuring.
ContextPool_WithFirstError ==
    /\ Alive
    /\ variant = "context"
    /\ IF state = "Configuring"
       THEN /\ onlyFirstError' = TRUE
            /\ callerPanic' = "none"
       ELSE /\ onlyFirstError' = onlyFirstError
            /\ callerPanic' = "ConfigError"
    /\ UNCHANGED <<variant, call, auxVars, state, poolVars, mu, errs, firstLock, firstErrorAtGo, results,
                   taskVars, waitVars, ctxDone>>

\* ContextPool.WithMaxGoroutines(n)
ContextPool_WithMaxGoroutines(n) ==
    /\ Alive
    /\ variant = "context"
    /\ Pool_WithMaxGoroutines(n)
    /\ reqCap' = IF callerPanic' = "none" THEN n ELSE reqCap
    /\ UNCHANGED <<variant, call, auxVars, state, admitted, outstanding, fault, errVars,
                   results, taskVars, waitVars, ctxDone>>

\* ------------------------------------------------- the derived ContextPool
\* The methods of the ContextPool that WithContext returned, on its own
\* fields.
Derived_WithMaxGoroutines(n) ==
    /\ Alive
    /\ derived.made
    /\ IF derived.errorPool.pool.state = "Configuring" /\ n >= 1
       THEN /\ derived' = [derived EXCEPT !.errorPool.pool.limiterCap = n]
            /\ callerPanic' = "none"
       ELSE /\ derived' = derived
            /\ callerPanic' = "ConfigError"
    /\ UNCHANGED <<variant, call, goChild, cancelCalls, wait2, state, poolVars, errVars,
                   results, taskVars, waitVars, ctxDone>>

Derived_WithFirstError ==
    /\ Alive
    /\ derived.made
    /\ IF derived.errorPool.pool.state = "Configuring"
       THEN /\ derived' = [derived EXCEPT !.errorPool.onlyFirstError = TRUE]
            /\ callerPanic' = "none"
       ELSE /\ derived' = derived
            /\ callerPanic' = "ConfigError"
    /\ UNCHANGED <<variant, call, goChild, cancelCalls, wait2, state, poolVars, errVars,
                   results, taskVars, waitVars, ctxDone>>

\* Go on the derived pool, up to the limiter.
Derived_Go ==
    /\ Alive
    /\ derived.made
    /\ derived.pc = "idle"
    /\ IF derived.errorPool.pool.state = "Done"
       THEN /\ derived' = derived
            /\ callerPanic' = "StateError"
       ELSE /\ derived' = [derived EXCEPT !.errorPool.pool.state = "Running",
                                          !.pc = "acquiring"]
            /\ callerPanic' = "none"
    /\ UNCHANGED <<variant, call, goChild, cancelCalls, wait2, state, poolVars, errVars,
                   results, taskVars, waitVars, ctxDone>>

\* The derived pool's limiter admits the task.
Derived_acquire ==
    /\ Alive
    /\ derived.made
    /\ derived.pc = "acquiring"
    /\ \/ derived.errorPool.pool.limiterCap = 0
       \/ derived.errorPool.pool.admitted < derived.errorPool.pool.limiterCap
    /\ derived' = [derived EXCEPT !.errorPool.pool.admitted = @ + 1,
                                  !.errorPool.pool.outstanding = @ + 1,
                                  !.pc = "running"]
    /\ UNCHANGED <<variant, call, goChild, cancelCalls, wait2, state, poolVars, errVars,
                   results, taskVars, waitVars, ctxDone, callerPanic>>

\* The task of the derived pool ends: an error cancels the derived context
\* and goes to the derived pool's addErr; the worker captures a panic and
\* decrements the derived pool's outstanding counter.
Derived_task ==
    /\ Alive
    /\ derived.made
    /\ derived.pc = "running"
    /\ \E o \in ErrOutcomes :
          derived' =
              [derived EXCEPT
                 !.ret = o,
                 !.ctxDone = @ \/ IsErr(o),
                 !.errorPool.errs = addErr(@, o, derived.errorPool.onlyFirstError),
                 !.errorPool.pool.fault = (o = Panic),
                 !.errorPool.pool.outstanding = @ - 1,
                 !.pc = "releasing"]
    /\ UNCHANGED <<variant, call, goChild, cancelCalls, wait2, state, poolVars, errVars,
                   results, taskVars, waitVars, ctxDone, callerPanic>>

\* The derived pool's limiter gets the slot back.
Derived_release ==
    /\ Alive
    /\ derived.made
    /\ derived.pc = "releasing"
    /\ derived' = [derived EXCEPT !.errorPool.pool.admitted = @ - 1,
                                  !.pc = "done"]
    /\ UNCHANGED <<variant, call, goChild, cancelCalls, wait2, state, poolVars, errVars,
                   results, taskVars, waitVars, ctxDone, callerPanic>>

\* Wait on the derived pool, from its call to its end: the derived pool's
\* counter is at zero; a captured panic is raised again, else the derived
\* pool's errors are returned; the derived context is cancelled.
Derived_Wait ==
    /\ Alive
    /\ derived.made
    /\ derived.waitPc = "none"
    /\ derived.pc # "acquiring"
    /\ derived.errorPool.pool.outstanding = 0
    /\ derived' =
          [derived EXCEPT
             !.errorPool.pool.state = "Done",
             !.ctxDone = TRUE,
             !.waitPc = IF derived.errorPool.pool.fault THEN "raised"
                                                        ELSE "returned",
             !.waitRet = IF derived.errorPool.pool.fault
                         THEN NoErr ELSE derived.errorPool.errs]
    /\ UNCHANGED <<variant, call, goChild, cancelCalls, wait2, state, poolVars, errVars,
                   results, taskVars, waitVars, ctxDone, callerPanic>>

\* --------------------------------------------------------------- ResultPool
\* ResultPool.Go: the task's value is appended to the results under the lock.
ResultPool_Go(t) ==
    /\ Alive
    /\ NextToSubmit(t)
    /\ Pool_Go(t)
    /\ UNCHANGED <<variant, call, auxVars, poolVars, errVars, results, ret, waitVars,
                   ctxDone>>

\* The valued task runs to its end.
ResultPool_task(t) ==
    /\ Alive
    /\ pc[t] = "running"
    /\ \E o \in ValOutcomes :
          /\ ret' = [ret EXCEPT ![t] = o]
          /\ pc' = [pc EXCEPT ![t] = IF o = Panic THEN "panicked" ELSE "returned"]
    /\ UNCHANGED <<variant, call, auxVars, state, poolVars, errVars, results, waitVars,
                   ctxDone, callerPanic>>

ResultPool_lock(t) ==
    /\ Alive
    /\ pc[t] = "returned"
    /\ mu = 0
    /\ mu' = t
    /\ pc' = [pc EXCEPT ![t] = "locked"]
    /\ UNCHANGED <<variant, call, auxVars, state, poolVars, onlyFirstError, errs, firstLock, firstErrorAtGo,
                   results, ret, waitVars, ctxDone, callerPanic>>

\* Mutant of collect: the new value replaces the collection.
collect_replace(res, o) == <<o.leaves[1]>>

\* The collection after one more task's value.
collect(res, o) == Append(res, o.leaves[1])

ResultPool_append(t) ==
    /\ Alive
    /\ pc[t] = "locked"
    /\ mu = t
    /\ results' = collect(results, ret[t])
    /\ mu' = 0
    /\ pc' = [pc EXCEPT ![t] = "exiting"]
    /\ UNCHANGED <<variant, call, auxVars, state, poolVars, onlyFirstError, errs, firstLock, firstErrorAtGo,
                   ret, waitVars, ctxDone, callerPanic>>

ResultPool_WaitCall ==
    /\ Alive
    /\ waitPc = "none"
    /\ NoGoInFlight
    /\ Pool_WaitCall
    /\ callerPanic' = "none"
    /\ UNCHANGED <<variant, call, auxVars, poolVars, errVars, results, taskVars, waitRet,
                   waitRes, ctxDone>>

\* ResultPool.Wait: drains as Pool.Wait (a captured panic is raised again),
\* then returns the values.
ResultPool_WaitReturn ==
    /\ Alive
    /\ waitPc = "blocked"
    /\ Pool_drained
    /\ state' = "Done"
    /\ IF fault # 0
       THEN /\ waitPc' = "raised"
            /\ waitRes' = waitRes
       ELSE /\ waitPc' = "returned"
            /\ waitRes' = results
    /\ UNCHANGED <<variant, call, auxVars, poolVars, errVars, results, taskVars, waitRet,
                   ctxDone, callerPanic>>

\* ResultPool.Wait called a second time.
ResultPool_WaitAgain ==
    /\ Alive
    /\ Pool_WaitDone
    /\ wait2.pc = "none"
    /\ wait2' = [pc  |-> IF fault # 0 THEN "raised" ELSE "returned",
                 ret |-> NoErr,
                 res |-> IF fault # 0 THEN << >> ELSE results]
    /\ UNCHANGED <<variant, call, goChild, derived, cancelCalls, state, poolVars,
                   errVars, results, taskVars, waitVars, ctxDone, callerPanic>>

ResultPool_WithMaxGoroutines(n) ==
    /\ Alive
    /\ Pool_WithMaxGoroutines(n)
    /\ reqCap' = IF callerPanic' = "none" THEN n ELSE reqCap
    /\ UNCHANGED <<variant, call, auxVars, state, admitted, outstanding, fault, errVars,
                   results, taskVars, waitVars, ctxDone>>

\* ------------------------------------------------------------ specifications
Next ==
    \/ \E t \in Tasks : ErrorPool_Go(t)
    \/ \E t \in Tasks : Pool_acquire(t)
    \/ \E t \in Tasks : ErrorPool_task(t)
    \/ \E t \in Tasks : ContextPool_task(t)
    \/ \E t \in Tasks : ErrorPool_addErrNil(t)
    \/ \E t \in Tasks : ErrorPool_addErrLock(t)
    \/ \E t \in Tasks : ErrorPool_addErrStore(t)
    \/ \E t \in Tasks : Pool_taskDone(t)
    \/ \E t \in Tasks : Pool_release(t)
    \/ ErrorPool_WaitCall
    \/ ErrorPool_WaitReturn
    \/ ContextPool_WaitReturn
    \/ ErrorPool_WaitAgain
    \/ ContextPool_WaitAgain
    \/ ErrorPool_WithFirstError
    \/ ContextPool_WithFirstError
    \/ \E n \in 0..MaxCap : ErrorPool_WithMaxGoroutines(n)
    \/ \E n \in 0..MaxCap : ContextPool_WithMaxGoroutines(n)
    \/ ErrorPool_WithContext(FALSE)

Spec == Init /\ [][Next]_vars

\* The scheduler is fair to the workers and to a caller blocked in Go or in
\* Wait, and every task body ends; nothing makes the caller call.
Fairness ==
    /\ \A t \in Tasks : WF_vars(Pool_acquire(t))
    /\ \A t \in Tasks : WF_vars(ErrorPool_task(t))
    /\ \A t \in Tasks : WF_vars(ContextPool_task(t))
    /\ \A t \in Tasks : WF_vars(ErrorPool_addErrNil(t))
    /\ \A t \in Tasks : WF_vars(ErrorPool_addErrLock(t))
    /\ \A t \in Tasks : WF_vars(ErrorPool_addErrStore(t))
    /\ \A t \in Tasks : WF_vars(Pool_taskDone(t))
    /\ \A t \in Tasks : WF_vars(Pool_release(t))
    /\ WF_vars(ErrorPool_WaitReturn)
    /\ WF_vars(ContextPool_WaitReturn)

\* The Go and Wait calls on a configured pool, and the steps of its workers.
NextRun ==
    \/ \E t \in Tasks : ErrorPool_Go(t)
    \/ \E t \in Tasks : Pool_acquire(t)
    \/ \E t \in Tasks : ErrorPool_task(t)
    \/ \E t \in Tasks : ContextPool_task(t)
    \/ \E t \in Tasks : ErrorPool_addErrNil(t)
    \/ \E t \in Tasks : ErrorPool_addErrLock(t)
    \/ \E t \in Tasks : ErrorPool_addErrStore(t)
    \/ \E t \in Tasks : Pool_taskDone(t)
    \/ \E t \in Tasks : Pool_release(t)
    \/ ErrorPool_WaitCall
    \/ ErrorPool_WaitReturn
    \/ ContextPool_WaitReturn

SpecFair == InitConfigured /\ [][NextRun]_vars /\ Fairness

\* An ErrorPool with one task and the ContextPool derived from it.
InitDerive ==
    /\ variant = "error"
    /\ InitPool

SrcTasks == {1}

NextDerive ==
    \/ ErrorPool_WithContext(TRUE)
    \/ ErrorPool_WithFirstError
    \/ \E n \in 0..MaxCap : ErrorPool_WithMaxGoroutines(n)
    \/ \E t \in SrcTasks : ErrorPool_Go(t)
    \/ \E t \in SrcTasks : Pool_acquire(t)
    \/ \E t \in SrcTasks : ErrorPool_task(t)
    \/ \E t \in SrcTasks : ErrorPool_addErrNil(t)
    \/ \E t \in SrcTasks : ErrorPool_addErrLock(t)
    \/ \E t \in SrcTasks : ErrorPool_addErrStore(t)
    \/ \E t \in SrcTasks : Pool_taskDone(t)
    \/ \E t \in SrcTasks : Pool_release(t)
    \/ Derived_WithFirstError
    \/ \E n \in 0..MaxCap : Derived_WithMaxGoroutines(n)
    \/ Derived_Go
    \/ Derived_acquire
    \/ Derived_task
    \/ Derived_release
    \/ Derived_Wait
    \/ ErrorPool_WaitCall
    \/ ErrorPool_WaitReturn

SpecDerive == InitDerive /\ [][NextDerive]_vars

\* ------------------------------------------------------- package errors
MaxLen == 2

\* The error values given to errors.Append: nil, one error, an aggregate of
\* up to MaxLen errors.
SeqsUpTo(n) == UNION {[1..k -> ErrIds] : k \in 1..n}
ErrValues ==
    {NoErr} \cup {Leaf(e) : e \in ErrIds} \cup {Multi(q) : q \in SeqsUpTo(MaxLen)}

\* mErr := Append(a, b)
Call_Append(a, b) ==
    /\ call = NoCall
    /\ call' = [fn |-> "Append", a |-> a, b |-> b, out |-> Append_(a, b)]
    /\ UNCHANGED <<variant, state, poolVars, errVars, results, taskVars,
                   waitVars, ctxDone, callerPanic, auxVars>>

\* p.addErr(err) on a pool whose p.errs is cur, as a function to the new
\* p.errs (nothing is stored for a nil err).
Call_addErr(cur, err, only) ==
    /\ call = NoCall
    /\ call' = [fn |-> "addErr", a |-> cur, b |-> err, only |-> only,
                out |-> IF err = NoErr THEN cur ELSE addErr(cur, err, only)]
    /\ UNCHANGED <<variant, state, poolVars, errVars, results, taskVars,
                   waitVars, ctxDone, callerPanic, auxVars>>

MaxKind == 2
MaxOp == 2
MaxDepth == 2

\* Kind and Operation are strings: 0 stands for the empty string.
Kinds == 0..MaxKind
Ops == 1..MaxOp

\* The values of type error given to the package: the nil interface, an error
\* of another type, and the *Error values with their causes.
Nil == [type |-> "nil"]
Foreign == [type |-> "foreign"]
\* Where an *Error was built: at the call at hand, or at an earlier call.
Here == 2
There == 1
RECURSIVE ErrorsUpTo(_)
ErrorsUpTo(d) ==
    IF d = 0 THEN {Nil, Foreign}
    ELSE LET below == ErrorsUpTo(d - 1)
         IN  below \cup
             {[type |-> "Error", op |-> o, kind |-> k, message |-> 0,
               cause |-> c, location |-> There] :
                  o \in Ops, k \in Kinds, c \in below}
Errors == ErrorsUpTo(MaxDepth)

RECURSIVE Match(_, _)
\* Mutant of Match: a kind that differs does not end the search.
Match_deep(kind, err) ==
    IF err.type # "Error" THEN FALSE
    ELSE IF err.kind # 0 /\ err.kind = kind THEN TRUE
    ELSE IF err.cause # Nil THEN Match(kind, err.cause)
    ELSE FALSE

\* Match(kind, err)
Match(kind, err) ==
    IF err.type # "Error" THEN FALSE
    ELSE IF err.kind # 0 THEN err.kind = kind
    ELSE IF err.cause # Nil THEN Match(kind, err.cause)
    ELSE FALSE

\* Match(tc.givenKind, tc.givenErr)
Call_Match(kind, err) ==
    /\ call = NoCall
    /\ call' = [fn |-> "Match", kind |-> kind, err |-> err,
                out |-> Match(kind, err)]
    /\ UNCHANGED <<variant, state, poolVars, errVars, results, taskVars,
                   waitVars, ctxDone, callerPanic, auxVars>>

\* The Operation that genOp makes of the name of the function calling E.
CallerOp == 1

\* Mutant of eWithSkip: no deduplication.
eWithSkip_wrap(op, kind, message, cause) ==
    [type |-> "Error",
     op |-> IF op # 0 THEN op ELSE CallerOp,
     kind |-> kind, message |-> message, cause |-> cause, location |-> Here]

\* eWithSkip(skip, args...) for the arguments an Operation (0: none given),
\* a Kind, a string and an error: the fields are set from the arguments, the
\* location and a missing op from the caller; an *Error cause with the op of
\* the new error is returned in place of the new error.
eWithSkip(op, kind, message, cause) ==
    LET e == [type |-> "Error",
              op |-> IF op # 0 THEN op ELSE CallerOp,
              kind |-> kind, message |-> message, cause |-> cause,
              location |-> Here]
    IN  IF cause.type = "Error" /\ cause.op = e.op THEN cause ELSE e

\* E(args...)
E(op, kind, message, cause) == eWithSkip(op, kind, message, cause)

\* E(tc.givenOp, tc.givenKind, tc.givenMsg, tc.givenCause)
Call_E(op, kind, message, cause) ==
    /\ call = NoCall
    /\ call' = [fn |-> "E", op |-> op, kind |-> kind, message |-> message,
                cause |-> cause, out |-> E(op, kind, message, cause)]
    /\ UNCHANGED <<variant, state, poolVars, errVars, results, taskVars,
                   waitVars, ctxDone, callerPanic, auxVars>>

\* The call at hand has returned and its result is taken: the next call can
\* be made.
Call_return ==
    /\ call # NoCall
    /\ call' = NoCall
    /\ UNCHANGED <<variant, state, poolVars, errVars, results, taskVars,
                   waitVars, ctxDone, callerPanic, auxVars>>

NextErrors ==
    \/ Call_return
    \/ /\ call = NoCall
       /\ \E op \in 0..MaxOp : \E kind \in Kinds : \E message \in 0..1 :
             \E cause \in Errors : Call_E(op, kind, message, cause)
    \/ /\ call = NoCall
       /\ \E a \in ErrValues : \E b \in ErrValues : Call_Append(a, b)
    \/ /\ call = NoCall
       /\ \E kind \in Kinds : \E err \in Errors : Call_Match(kind, err)
    \/ /\ call = NoCall
       /\ \E cur \in ErrValues :
             \E err \in {NoErr} \cup {Leaf(e) : e \in ErrIds} :
                \E only \in BOOLEAN : Call_addErr(cur, err, only)

SpecErrors == InitDerive /\ [][NextErrors]_vars

\* The pool with tasks that submit tasks to it.
NextReentrant ==
    \/ Next
    \/ \E t \in Tasks : \E c \in Tasks : ErrorPool_taskGo(t, c)
    \/ \E t \in Tasks : ErrorPool_taskGoReturn(t)

SpecReentrant == Init /\ [][NextReentrant]_vars

NextResult ==
    \/ \E t \in Tasks : ResultPool_Go(t)
    \/ \E t \in Tasks : Pool_acquire(t)
    \/ \E t \in Tasks : ResultPool_task(t)
    \/ \E t \in Tasks : ResultPool_lock(t)
    \/ \E t \in Tasks : ResultPool_append(t)
    \/ \E t \in Tasks : Pool_taskDone(t)
    \/ \E t \in Tasks : Pool_release(t)
    \/ ResultPool_WaitCall
    \/ ResultPool_WaitReturn
    \/ ResultPool_WaitAgain
    \/ \E n \in 0..MaxCap : ResultPool_WithMaxGoroutines(n)

SpecResult == InitResult /\ [][NextResult]_vars

\* -------------------------------------------------------------------- claims
\* A task is executing from its admission by the limiter to its release.
Executing(t) ==
    pc[t] \in {"running", "returned", "panicked", "locked", "exiting", "releasing"}
Submitted(t) == pc[t] # "idle"
\* The task's body and its recording of the outcome are over.
Finished(t) == pc[t] \in {"releasing", "done"}
WaitEnded == waitPc \in {"returned", "raised"}
Count(seq, x) == Cardinality({i \in 1..Len(seq) : seq[i] = x})

\* C1: on a pool configured with WithMaxGoroutines(n), n >= 1, at most n
\* tasks are executing (admitted and not yet released) in every state.
C1_MaxConcurrency ==
    reqCap >= 1 => Cardinality({t \in Tasks : Executing(t)}) <= reqCap

\* C1 witness: capacity 1, one task executing, the next Go blocked on the
\* limiter.
C1_Witness ==
    /\ reqCap = 1
    /\ Executing(1)
    /\ pc[2] = "acquiring"

\* C2: when no task panics, Wait() returns nil if and only if every
\* submitted task returned nil, in either error mode.
C2_WaitNilIffAllNil ==
    (waitPc = "returned" /\ \A t \in Tasks : ret[t] # Panic)
        => ((waitRet = NoErr) <=> (\A t \in Tasks : Submitted(t) => ret[t] = NoErr))

\* C2 witness: Wait() returned an error after one task returned nil and
\* another an error.
C2_Witness ==
    /\ waitPc = "returned"
    /\ waitRet # NoErr
    /\ ret[1] = NoErr
    /\ IsErr(ret[2])

\* C3: with WithFirstError() set before the first Go, when some task
\* returns an error Wait() returns exactly the error of the task whose
\* addErr took the lock first, never an aggregate.
C3_FirstErrorIsFirstLocker ==
    (waitPc = "returned" /\ firstErrorAtGo /\ \E t \in Tasks : IsErr(ret[t]))
        => /\ firstLock # 0
           /\ waitRet = ret[firstLock]
           /\ waitRet.tag = "leaf"

\* C3 witness: two tasks failed with different errors and the task
\* submitted second took the lock first; Wait() returned its error.
C3_Witness ==
    /\ waitPc = "returned"
    /\ firstErrorAtGo
    /\ IsErr(ret[1])
    /\ IsErr(ret[2])
    /\ ret[1] # ret[2]
    /\ firstLock = 2
    /\ waitRet = ret[2]

\* C4: in aggregate mode the error Wait() returns has as leaves exactly
\* the non-nil errors the tasks returned, each as often as it was returned.
C4_AggregateHasEveryError ==
    (waitPc = "returned" /\ ~onlyFirstError)
        => \A e \in ErrIds :
              Count(Leaves(waitRet), e)
                  = Cardinality({t \in Tasks : ret[t] = Leaf(e)})

\* C4 witness: two tasks failed with different errors, the second stored
\* its error first, and Wait() returned the aggregate of both.
C4_Witness ==
    /\ waitPc = "returned"
    /\ ~onlyFirstError
    /\ ret[1] = Leaf(1)
    /\ ret[2] = Leaf(2)
    /\ waitRet = Multi(<<2, 1>>)

\* C5: when ResultPool.Wait() ends, the results hold one element for every
\* task that returned a value, equal as a multiset to the values returned,
\* and Wait() returns them.
C5_ResultsAreTheValues ==
    WaitEnded
        => /\ \A v \in Vals :
                 Count(results, v)
                     = Cardinality({t \in Tasks : ret[t] = Value(v)})
           /\ waitPc = "returned" => waitRes = results

\* C5 witness: Wait() returned the two values in the reverse of the order
\* the tasks were submitted in.
C5_Witness ==
    /\ waitPc = "returned"
    /\ ret[1] = Value(1)
    /\ ret[2] = Value(2)
    /\ waitRes = <<2, 1>>

\* C6: if a submitted task panicked, Wait() ends by raising, never by
\* returning; and when it raises, every submitted task has run to its end
\* and every error a sibling returned is recorded in the pool.
C6_FaultReRaisedAfterSiblings ==
    WaitEnded
        => /\ (waitPc = "raised") <=> (\E t \in Tasks : ret[t] = Panic)
           /\ \A t \in Tasks : Submitted(t) => Finished(t)
           /\ \A t \in Tasks :
                 IsErr(ret[t])
                     => /\ errs # NoErr
                        /\ ~onlyFirstError => Count(Leaves(errs), ret[t].leaves[1]) >= 1

\* C6 witness: the first task panicked, the second returned an error;
\* Wait() raised and the error is in the pool.
C6_Witness ==
    /\ waitPc = "raised"
    /\ ret[1] = Panic
    /\ IsErr(ret[2])
    /\ errs = ret[2]

\* C7: Wait() has not ended, by returning or by raising, while the
\* outstanding counter is above zero or a submitted task is still at work.
C7_WaitOnlyAfterDrain ==
    WaitEnded
        => /\ outstanding = 0
           /\ \A t \in Tasks : Submitted(t) => Finished(t)

\* C7 witness: Wait() has returned with both tasks counted out, one of them
\* not yet past its release.
C7_Witness ==
    /\ waitPc = "returned"
    /\ pc[1] = "done"
    /\ pc[2] = "releasing"
    /\ outstanding = 0

\* C8: with a captured panic Wait() raises and returns no error value,
\* recorded errors or not; it returns the stored error only when no panic
\* was captured.
C8_FaultBeforeError ==
    /\ (WaitEnded /\ fault # 0) => (waitPc = "raised" /\ waitRet = NoErr)
    /\ waitPc = "returned" => (fault = 0 /\ waitRet = errs)

\* C8 witness: a panic is captured and an error is recorded, and Wait()
\* raised.
C8_Witness ==
    /\ waitPc = "raised"
    /\ fault # 0
    /\ errs # NoErr
    /\ waitRet = NoErr

\* Some configuration method is called.
ConfigCall ==
    \/ ErrorPool_WithFirstError
    \/ ContextPool_WithFirstError
    \/ \E n \in 0..MaxCap : ErrorPool_WithMaxGoroutines(n)
    \/ \E n \in 0..MaxCap : ContextPool_WithMaxGoroutines(n)
    \/ ErrorPool_WithContext(FALSE)

\* The call ended in a ConfigError and changed no setting.
ConfigRefused ==
    /\ callerPanic' = "ConfigError"
    /\ onlyFirstError' = onlyFirstError
    /\ limiterCap' = limiterCap

\* C9: a configuration method called after the first Go ends in a
\* ConfigError and leaves the configuration of the pool as it was.
C9_ConfigAfterGoFails ==
    [][(state # "Configuring" /\ ConfigCall) => ConfigRefused]_vars

\* No task is started, and a Go call ends in a panic.
GoRefused ==
    /\ \A t \in Tasks : pc[t] = "idle" => pc'[t] = "idle"
    /\ (\E t \in Tasks : ErrorPool_Go(t)) => callerPanic' = "StateError"

\* C10: a Go call on a pool that is Draining or Done fails fast and starts
\* no task.
C10_GoAfterWaitFails ==
    [][(state \in {"Draining", "Done"}) => GoRefused]_vars

\* C10 witness: Go was called after Wait() had returned; it panicked and the
\* task was not started.
C10_Witness ==
    /\ state = "Done"
    /\ waitPc = "returned"
    /\ callerPanic = "StateError"
    /\ pc[1] = "done"
    /\ pc[2] = "idle"

\* Every limiter slot is held by a task whose body is inside a Go call that
\* waits for a slot: no slot can come free.
SelfDeadlock ==
    /\ limiterCap >= 1
    /\ admitted = limiterCap
    /\ \E t \in Tasks : goChild[t] # 0
    /\ \A u \in Tasks :
          Executing(u) => /\ pc[u] = "running"
                          /\ goChild[u] # 0
                          /\ pc[goChild[u]] = "acquiring"

\* C11: with a bounded limiter a task that calls Go on its own pool is
\* admitted and the pool does not deadlock, also when every slot is held by
\* a task inside such a Go call.
C11_ReentrantGoNeverDeadlocks == ~SelfDeadlock

\* C12: in a ContextPool a task that has returned an error has invoked the
\* cancel function on its way out: the context is Done from then on, so
\* before the outstanding counter reaches zero for Wait.
C12_ErrorCancelsBeforeDrain ==
    variant = "context" =>
        \A t \in Tasks : IsErr(ret[t]) => ctxDone /\ cancelCalls >= 1

C12_Witness ==
    /\ variant = "context"
    /\ waitPc = "blocked"
    /\ outstanding = 0
    /\ \E t \in Tasks : IsErr(ret[t])
    /\ ctxDone

NumErrTasks == Cardinality({t \in Tasks : IsErr(ret[t])})
NumWaits ==
    (IF WaitEnded THEN 1 ELSE 0) + (IF wait2.pc # "none" THEN 1 ELSE 0)

\* C13, as claimed: the cancel function of a ContextPool is invoked exactly
\* once over the life of the pool, never twice and never zero times after
\* Wait.
C13_CancelExactlyOnce ==
    variant = "context" =>
        /\ cancelCalls <= 1
        /\ WaitEnded => cancelCalls = 1

\* C13, amended: the cancel function is invoked once by every task that
\* returns an error and once by every Wait that ends; the context is Done
\* exactly from the first of these invocations on, and at least one was made
\* when Wait has ended.
C13_CancelPerErrorAndWait ==
    variant = "context" =>
        /\ cancelCalls = NumErrTasks + NumWaits
        /\ ctxDone <=> cancelCalls >= 1
        /\ WaitEnded => cancelCalls >= 1

C13_Witness ==
    /\ variant = "context"
    /\ WaitEnded
    /\ NumErrTasks = 2
    /\ cancelCalls = 3

\* C14: when ContextPool.Wait has ended, by a return or by the re-raised
\* fault, the context is Done, also when no task returned an error.
C14_WaitCancels ==
    (variant = "context" /\ WaitEnded) => ctxDone

C14_Witness ==
    /\ variant = "context"
    /\ waitPc = "returned"
    /\ waitRet = NoErr
    /\ \A t \in Tasks : ret[t] = NoErr
    /\ ctxDone

\* A second call of Wait ends in this step.
SecondWait == wait2.pc = "none" /\ wait2'.pc # "none"
SecondWaitSame ==
    /\ state = "Done"
    /\ wait2'.pc = waitPc
    /\ wait2'.ret = waitRet
    /\ wait2'.res = waitRes
    /\ UNCHANGED <<state, poolVars, errVars, results, taskVars, waitVars>>

\* C16: a second Wait on a pool that is Done ends in one step, with the
\* outcome of the first call (the same error value, the same values or the
\* same re-raised fault), and changes nothing of the pool.
C16_SecondWaitSameOutcome == [][SecondWait => SecondWaitSame]_vars

C16_Witness ==
    /\ wait2.pc = "returned"
    /\ wait2.ret.tag = "multi"
    /\ wait2.ret = waitRet

\* A call that sets the concurrency cap to n.
SetCap(n) == ErrorPool_WithMaxGoroutines(n) \/ ContextPool_WithMaxGoroutines(n)
BadCapRefused ==
    \A n \in 0..MaxCap :
        (SetCap(n) /\ (n < 1 \/ state # "Configuring")) =>
            (callerPanic' = "ConfigError" /\ limiterCap' = limiterCap)

\* C17: WithMaxGoroutines(n) with n < 1, or on a pool that has left
\* Configuring, ends in a ConfigError and leaves the limiter's capacity as it
\* was.
C17_BadCapRefused == [][BadCapRefused]_vars

C17_Witness ==
    /\ callerPanic = "ConfigError"
    /\ state = "Configuring"
    /\ limiterCap = MaxCap

Holding == {t \in Tasks : Executing(t)}
Counted ==
    {t \in Tasks : pc[t] \in {"running", "returned", "panicked", "locked",
                             "exiting"}}

FaultKept ==
    /\ fault # 0 => fault' = fault
    /\ fault' # 0 => ret'[fault'] = Panic
    /\ waitPc' = "raised" => fault' # 0

\* C19: the fault slot is written once: a captured fault is never replaced,
\* it is the fault of a task that panicked, and it is the one Wait raises.
C19_FaultFirstWriterWins == [][FaultKept]_vars

C19_Witness ==
    /\ \A t \in Tasks : ret[t] = Panic /\ Finished(t)
    /\ fault = MaxTasks
    /\ waitPc = "raised"

\* C20: under a fair scheduler and with task bodies that end, a Go call that
\* waits for a slot is admitted and a Wait call that is blocked ends, unless
\* a panic of the caller ends the program first: no Go call stays in its
\* acquire and no Wait call stays blocked.  (A Go call leaves "acquiring"
\* only by being admitted, a Wait call leaves "blocked" only by ending.)
C20_NoOperationBlocksForever ==
    /\ \A t \in Tasks : []<>(pc[t] # "acquiring" \/ ~Alive)
    /\ []<>(waitPc # "blocked" \/ ~Alive)

C20_Witness ==
    /\ limiterCap = 1
    /\ admitted = 1
    /\ \E t \in Tasks : pc[t] = "acquiring"
    /\ \E t \in Tasks : pc[t] = "releasing"

\* The fields of the source pool.
srcVars == <<state, poolVars, errVars, results, taskVars, waitVars, ctxDone>>

\* WithContext returns in this step.
Derives == ~derived.made /\ derived'.made
DerivedIsCopy ==
    /\ derived'.errorPool.pool.limiterCap = limiterCap
    /\ derived'.errorPool.onlyFirstError = onlyFirstError
    /\ derived'.errorPool.pool.admitted = 0
    /\ derived'.errorPool.pool.outstanding = 0
    /\ derived'.errorPool.mu = 0
    /\ derived'.errorPool.errs = NoErr
    /\ ~derived'.ctxDone
DerivedFrame ==
    /\ Derives => DerivedIsCopy
    /\ derived' # derived => UNCHANGED srcVars
    /\ srcVars' # srcVars => derived' = derived

\* C15: the ContextPool of WithContext starts with the source's capacity and
\* error mode as they are at that moment and with counters, lock and errors
\* of its own; afterwards no call or task step of the derived pool changes a
\* field of the source, and none of the source changes the derived pool.
C15_DerivedSharesNothing == [][DerivedFrame]_vars

C15_Witness ==
    /\ derived.made
    /\ derived.errorPool.onlyFirstError
    /\ ~onlyFirstError
    /\ derived.errorPool.pool.limiterCap = 1
    /\ limiterCap = MaxCap
    /\ derived.errorPool.pool.admitted = 1
    /\ admitted = 0
    /\ pc[1] = "acquiring"

\* C21, as claimed: Append returns the other argument itself when one of the
\* two is nil and the flattened aggregate otherwise, and the error a pool
\* holds after a single failed task is that task's error.
C21_AppendReturnsOther ==
    /\ call.fn = "Append" =>
          /\ call.a = NoErr => call.out = call.b
          /\ call.b = NoErr => call.out = call.a
          /\ (call.a # NoErr /\ call.b # NoErr) =>
                call.out = Multi(Leaves(call.a) \o Leaves(call.b))
    /\ (call.fn = "addErr" /\ call.a = NoErr /\ call.b # NoErr) =>
          call.out = call.b

\* C21, amended: Append(a, nil) is a; for a non-nil b, Append(a, b) is an
\* aggregate whose leaves are those of a followed by those of b (an aggregate
\* argument gives its leaves), also when a is nil: one error b comes back as
\* an aggregate of the one leaf b, which renders as b in brackets.  The error
\* a pool holds after a single failed task is such an aggregate of that
\* task's error, and the task's error itself only in first-error mode.
C21_AppendFlattens ==
    /\ call.fn = "Append" =>
          /\ call.b = NoErr => call.out = call.a
          /\ call.b # NoErr =>
                /\ call.out.tag = "multi"
                /\ Leaves(call.out) = Leaves(call.a) \o Leaves(call.b)
          /\ (call.a = NoErr /\ call.b.tag = "leaf") =>
                /\ call.out # call.b
                /\ Error_(call.out) = <<Bracket>> \o Error_(call.b) \o <<Bracket>>
          /\ call.out = NoErr <=> (call.a = NoErr /\ call.b = NoErr)
    /\ (call.fn = "addErr" /\ call.a = NoErr /\ call.b # NoErr) =>
          /\ call.only => call.out = call.b
          /\ ~call.only => /\ call.out = Multi(Leaves(call.b))
                           /\ call.out # call.b

C21_Witness ==
    /\ call.fn = "addErr"
    /\ call.a = NoErr
    /\ call.b = Leaf(1)
    /\ ~call.only
    /\ Error_(call.out) = <<Bracket, 1, Bracket>>

\* The kinds of the *Error values on the cause chain of err, outermost first,
\* up to the first cause that is nil or not an *Error.
RECURSIVE KindChain(_)
KindChain(err) ==
    IF err.type # "Error" THEN << >>
    ELSE <<err.kind>> \o KindChain(err.cause)

\* The first non-empty kind of the chain is k.
FirstKindIs(ch, k) ==
    \E i \in 1..Len(ch) :
        /\ ch[i] # 0
        /\ ch[i] = k
        /\ \A j \in 1..(i - 1) : ch[j] = 0

\* C22: Match(kind, err) is true exactly when err is an *Error and the first
\* non-empty kind on its chain of *Error causes is kind; so it is false for a
\* nil err, for an err of another type, for a chain of empty kinds (also for
\* the empty kind), and when an outer non-empty kind differs.
C22_MatchFirstNonEmptyKind ==
    call.fn = "Match" =>
        (call.out <=> FirstKindIs(KindChain(call.err), call.kind))

C22_Witness ==
    /\ call.fn = "Match"
    /\ call.err.type = "Error"
    /\ call.err.kind # 0
    /\ call.err.kind # call.kind
    /\ call.err.cause.type = "Error"
    /\ call.err.cause.kind = call.kind
    /\ call.kind # 0
    /\ ~call.out

\* The op of the error that the call of E builds.
BuiltOp == IF call.op # 0 THEN call.op ELSE CallerOp

\* C23: when the cause given to E is an *Error with the op of the error
\* being built, E returns that cause as it is, without the kind, message and
\* location of the call; otherwise it returns a new *Error with the fields
\* of the call and the given error as its cause.
C23_EDedupByOp ==
    call.fn = "E" =>
        IF call.cause.type = "Error" /\ call.cause.op = BuiltOp
        THEN call.out = call.cause
        ELSE /\ call.out.type = "Error"
             /\ call.out.op = BuiltOp
             /\ call.out.kind = call.kind
             /\ call.out.message = call.message
             /\ call.out.location = Here
             /\ call.out.cause = call.cause

C23_Witness ==
    /\ call.fn = "E"
    /\ call.cause.type = "Error"
    /\ call.cause.op = BuiltOp
    /\ call.kind # call.cause.kind
    /\ call.message # call.cause.message
    /\ call.out = call.cause
    /\ call.out.location = There

IsPrefix(p, q) == Len(p) <= Len(q) /\ SubSeq(q, 1, Len(p)) = p

\* What a step may do to p.errs.
ErrsGrow ==
    /\ errs # NoErr => errs' # NoErr
    /\ (onlyFirstError /\ errs # NoErr) => errs' = errs
    /\ IsPrefix(Leaves(errs), Leaves(errs'))
    /\ Len(Leaves(errs')) <= Len(Leaves(errs)) + 1
    /\ (\E t \in Tasks : ErrorPool_addErrNil(t)) => errs' = errs

\* C24: p.errs only grows: once non-nil it stays non-nil; in first-error mode
\* it does not change once it is non-nil; in aggregate mode its leaves are
\* extended at the end, by one error per addErr; the addErr of a task that
\* returned nil leaves it as it is.
C24_ErrsOnlyGrow == [][ErrsGrow]_vars

C24_Witness ==
    /\ ~onlyFirstError
    /\ errs.tag = "multi"
    /\ Len(Leaves(errs)) = 2
    /\ \A t \in Tasks : pc[t] = "exiting"

\* Wait() reads p.errs in this step (or raises the captured panic).
WaitReads == waitPc = "blocked" /\ waitPc' \in {"returned", "raised"}

\* The addErr of task t is over, or t was never submitted.
AddErrOver(t) == pc[t] \in {"idle", "panicked", "exiting", "releasing", "done"}

ReadAfterWrites ==
    /\ WaitReads =>
          /\ mu = 0
          /\ mu' = mu
          /\ \A t \in Tasks : AddErrOver(t) /\ pc[t] # "panicked"
          /\ waitPc' = "returned" =>
                /\ waitRet' = errs
                /\ \A t \in Tasks : IsErr(ret[t]) => errs # NoErr
                /\ ~onlyFirstError =>
                      \A t \in Tasks :
                          IsErr(ret[t]) =>
                              \E i \in 1..Len(Leaves(errs)) :
                                  Leaves(errs)[i] = Leaves(ret[t])[1]
    /\ WaitEnded => errs' = errs

\* C25: Wait() reads p.errs without taking p.mu, at a moment when no task
\* holds p.mu and the addErr of every submitted task is over; no addErr
\* writes p.errs afterwards, and what Wait() returns holds the error of every
\* task that returned one (in aggregate mode; some error in first-error
\* mode).
C25_WaitReadsAfterWrites == [][ReadAfterWrites]_vars

C25_Witness ==
    /\ waitPc = "returned"
    /\ \A t \in Tasks : IsErr(ret[t])
    /\ Len(Leaves(waitRet)) = MaxTasks
    /\ mu = 0
    /\ \E t \in Tasks : pc[t] = "releasing"

\* The errors in a are errors that tasks of the source pool returned, each at
\* most as often as source tasks returned it.
FromSource(a) ==
    \A e \in ErrIds :
        Count(Leaves(a), e) <= Cardinality({t \in Tasks : ret[t] = Leaf(e)})

\* The errors in a are errors that the task of the derived pool returned.
FromDerived(a) ==
    \A e \in ErrIds :
        Count(Leaves(a), e) <= (IF derived.ret = Leaf(e) THEN 1 ELSE 0)

\* C26: the ErrorPool that deref builds for WithContext has no stored error,
\* whatever the source pool has recorded, so the derived ContextPool starts
\* with none; afterwards the stored errors and the Wait() result of the
\* source pool hold only errors of the source pool's tasks, and the stored
\* errors and the Wait() result of the derived pool hold only errors of the
\* derived pool's tasks.
C26_DerivedErrorsDisjoint ==
    /\ deref.errs = NoErr
    /\ deref.mu = 0
    /\ derived.made =>
          /\ derived.ret = NotYet => derived.errorPool.errs = NoErr
          /\ FromSource(errs)
          /\ FromSource(waitRet)
          /\ FromDerived(derived.errorPool.errs)
          /\ FromDerived(derived.waitRet)

C26_Witness ==
    /\ derived.made
    /\ waitPc = "returned"
    /\ derived.waitPc = "returned"
    /\ IsErr(waitRet)
    /\ IsErr(derived.waitRet)
    /\ waitRet # derived.waitRet

\* The derived pool has recorded nothing although the source pool, after the
\* derivation, has recorded an error.
C26_WitnessEmptyStart ==
    /\ derived.made
    /\ derived.ret = NotYet
    /\ errs # NoErr
    /\ deref.errs = NoErr

====
